---- MODULE Spec2Model ----
(***************************************************************************)
(* Model of the bulk-load command of bendctl (cli/src/cmds/loads/load.rs). *)
(*                                                                         *)
(* A text is a sequence of tokens.  The characters of the inputs (source   *)
(* lines, the schema argument) are one-character tokens; every literal     *)
(* piece of a format! string of the code is one token, so that the texts   *)
(* the program builds are the concatenations the code performs.            *)
(***************************************************************************)
EXTENDS Naturals, Sequences, FiniteSets, TLC

(***************************************************************************)
(* Bounds of the model.                                                    *)
(***************************************************************************)
\* Longest source (number of lines on the input stream).
MaxLines == 4
\* Largest value of --skip-head-lines.
MaxSkip == 2
\* Lines pulled per batch; the code's literal is 100_000 (load.rs:191).
BatchSize == 2
\* Longest schema argument, in comma-delimited fields (schema check only).
MaxFields == 2

(***************************************************************************)
(* Texts.                                                                  *)
(***************************************************************************)
\* char::is_whitespace, for the characters the model's lines are made of.
IsSpace(c) == c = " "

RECURSIVE TrimStart(_)
TrimStart(s) ==
    IF s = <<>> THEN <<>>
    ELSE IF IsSpace(Head(s)) THEN TrimStart(Tail(s)) ELSE s

RECURSIVE TrimEnd(_)
TrimEnd(s) ==
    IF s = <<>> THEN <<>>
    ELSE IF IsSpace(s[Len(s)]) THEN TrimEnd(SubSeq(s, 1, Len(s) - 1)) ELSE s

\* str::trim
Trim(s) == TrimEnd(TrimStart(s))

\* Itertools::join / the fold of reduce_with: the texts of ts with sep between.
RECURSIVE Join(_, _)
Join(ts, sep) ==
    IF ts = <<>> THEN <<>>
    ELSE IF Len(ts) = 1 THEN ts[1]
    ELSE ts[1] \o <<sep>> \o Join(Tail(ts), sep)

\* str::split(d): the pieces of s between the occurrences of the token d
\* (always at least one piece; pieces may be empty).
RECURSIVE Split(_, _)
Split(s, d) ==
    IF s = <<>> THEN << <<>> >>
    ELSE LET rest == Split(Tail(s), d) IN
         IF Head(s) = d THEN << <<>> >> \o rest
         ELSE << <<Head(s)>> \o rest[1] >> \o Tail(rest)

\* Byte value of a character (the order of String keys in a BTreeMap).
Ord(c) ==
    CASE c = " " -> 32 [] c = "," -> 44 [] c = "1" -> 49 [] c = "2" -> 50
      [] c = ":" -> 58 [] c = "a" -> 97 [] c = "b" -> 98 [] c = "c" -> 99
      [] c = "t" -> 116 [] c = "u" -> 117 [] c = "v" -> 118 [] OTHER -> 127

\* Ord for String: lexicographic by bytes, a < b.
RECURSIVE StrLess(_, _)
StrLess(a, b) ==
    IF b = <<>> THEN FALSE
    ELSE IF a = <<>> THEN TRUE
    ELSE IF Head(a) = Head(b) THEN StrLess(Tail(a), Tail(b))
    ELSE Ord(Head(a)) < Ord(Head(b))

(***************************************************************************)
(* Option values.                                                          *)
(***************************************************************************)
None == [some |-> FALSE, val |-> <<>>]
Some(v) == [some |-> TRUE, val |-> v]

(***************************************************************************)
(* Schema: a BTreeMap<String, String>, held as the sequence of its         *)
(* <<key, value>> entries in ascending key order (its iteration order).    *)
(***************************************************************************)
\* BTreeMap::insert: replaces the value of an equal key, else inserts in
\* key order.
RECURSIVE BTreeInsert(_, _, _)
BTreeInsert(m, k, v) ==
    IF m = <<>> THEN << <<k, v>> >>
    ELSE IF m[1][1] = k THEN << <<k, v>> >> \o Tail(m)
    ELSE IF StrLess(k, m[1][1]) THEN << <<k, v>> >> \o m
    ELSE << m[1] >> \o BTreeInsert(Tail(m), k, v)

\* field.split(':').filter(|e| !e.is_empty()).collect()
Elems(field) == SelectSeq(Split(field, ":"), LAMBDA e : e # <<>>)

\* ParseFields with a field that is not a name and a type passed over
\* (continue) where the code returns the error.
RECURSIVE ParseFieldsLenient(_, _)
ParseFieldsLenient(fields, m) ==
    IF fields = <<>> THEN [ok |-> TRUE, schema |-> m]
    ELSE LET elems == Elems(Head(fields)) IN
         IF Len(elems) # 2 THEN ParseFieldsLenient(Tail(fields), m)
         ELSE ParseFieldsLenient(Tail(fields), BTreeInsert(m, elems[1], elems[2]))

\* The for loop of from_str over the fields, from the map built so far.
RECURSIVE ParseFields(_, _)
ParseFields(fields, m) ==
    IF fields = <<>> THEN [ok |-> TRUE, schema |-> m]
    ELSE LET elems == Elems(Head(fields)) IN
         IF Len(elems) # 2 THEN [ok |-> FALSE, schema |-> <<>>]
         ELSE ParseFields(Tail(fields), BTreeInsert(m, elems[1], elems[2]))

\* <Schema as FromStr>::from_str
from_str(s) ==
    LET str == SelectSeq(s, LAMBDA e : e # " ") IN
    ParseFields(Split(str, ","), <<>>)

\* <Schema as ToString>::to_string
to_string(m) ==
    Join([i \in 1..Len(m) |-> m[i][1] \o <<" ">> \o m[i][2]], ",")

\* Keys with the map iterated from its last key (keys().rev()).
KeysReversed(m) == [i \in 1..Len(m) |-> m[Len(m) + 1 - i][1]]

\* schema.schema.keys()
Keys(m) == [i \in 1..Len(m) |-> m[i][1]]

(***************************************************************************)
(* Statements.                                                             *)
(***************************************************************************)
\* format!("SHOW TABLES LIKE '{}';", t)
ShowTablesQuery(t) == <<"SHOW TABLES LIKE '">> \o t \o <<"';">>

\* format!("CREATE TABLE {}({}) Engine = Fuse;", table, schema.to_string())
CreateTableQuery(t, m) ==
    <<"CREATE TABLE ">> \o t \o <<"(">> \o to_string(m) \o <<") Engine = Fuse;">>

\* format!("INSERT INTO {} VALUES {}", table_format, values)
InsertQuery(tf, values) == <<"INSERT INTO ">> \o tf \o <<" VALUES ">> \o values

\* TableFormat with the bare table name whatever the schema argument.
TableFormatBare(t, schemaArg) == t

\* The table reference of the INSERT statements (let table_format = ...).
TableFormat(t, schemaArg) ==
    IF schemaArg.some
    THEN t \o <<" (">> \o Join(Keys(from_str(schemaArg.val).schema), ", ") \o <<")">>
    ELSE t

(***************************************************************************)
(* Record transformer.                                                     *)
(***************************************************************************)
\* .map(|e| format!("({})", e.trim()))
Wrap(line) == <<"(">> \o Trim(line) \o <<")">>

\* .filter(|e| !e.trim().is_empty())
Keep(e) == Trim(e) # <<>>

\* The fragments of a batch that reach the reduction, in the batch's order.
Fragments(b) == SelectSeq([i \in 1..Len(b) |-> Wrap(b[i])], Keep)

\* The orders in which par_bridge may hand the fragments to the reduction.
Orders(fs) ==
    { [i \in 1..Len(fs) |-> fs[p[i]]] : p \in Permutations(1..Len(fs)) }

\* batch.into_iter().par_bridge().map(..).filter(..).reduce_with(..): the
\* possible results, None when no fragment is left.
Values(b) ==
    IF Fragments(b) = <<>> THEN {None}
    ELSE { Some(Join(o, ", ")) : o \in Orders(Fragments(b)) }

(***************************************************************************)
(* Inputs.                                                                 *)
(***************************************************************************)
\* --table (required)
Table == <<"t">>

\* The lines a source is made of.
Lines == { <<"1">>, <<" ", "2", " ">>, <<" ">> }

RECURSIVE SeqsUpTo(_, _)
SeqsUpTo(S, n) ==
    IF n = 0 THEN { <<>> }
    ELSE LET shorter == SeqsUpTo(S, n - 1) IN
         shorter \cup { Append(s, x) : s \in { t \in shorter : Len(t) = n - 1 }, x \in S }

Sources == SeqsUpTo(Lines, MaxLines)

\* Values of --schema in a load: absent, two columns declared against the
\* alphabet, one column declared twice, a field with no type, a field with
\* two types, an empty field after a comma, a field with no name.
SchemaArgs ==
    { None,
      Some(<<"b", ":", "u", ",", " ", "a", ":", "v">>),
      Some(<<"a", ":", "u", ",", "a", ":", "v">>),
      Some(<<"a", ":", "u", ",", "b">>),
      Some(<<"a", ":", "u", ":", "v">>),
      Some(<<"a", ":", "u", ",">>),
      Some(<<":", "u">>) }

\* Values of the load argument: absent (standard input), a path that exists,
\* a path that does not.
ExistingPath == <<"data.csv">>
LoadArgs == { None, Some(ExistingPath), Some(<<"missing.csv">>) }

\* Path::new(val).exists()
PathExists(p) == p = ExistingPath

\* What execute_query_json may return: an error, or (col, data, _) with the
\* column list present or not and the row list absent, empty or non-empty.
Replies ==
    { [err |-> TRUE, col |-> FALSE, data |-> "none"],
      [err |-> FALSE, col |-> FALSE, data |-> "rows"],
      [err |-> FALSE, col |-> TRUE, data |-> "none"],
      [err |-> FALSE, col |-> TRUE, data |-> "empty"],
      [err |-> FALSE, col |-> TRUE, data |-> "rows"] }

\* Replies to a statement whose result the code does not inspect.
Acks == { r \in Replies : r.err \/ (r.col /\ r.data = "rows") }

(***************************************************************************)
(* State.                                                                  *)
(***************************************************************************)
VARIABLES
    load,          \* args.value_of("load")
    schema,        \* args.value_of("schema")
    skip,          \* --skip-head-lines, parsed
    profile,       \* status.current_profile.is_some()
    source,        \* the lines of the source (standard input, or the file)
    pc,            \* where local_exec_match stands
    precheck,      \* the result of local_exec_precheck: "pending", "Ok", "Err"
    result,        \* how local_exec_match ended: "none", "Ok", "Err", "panic"
    parsed,        \* the Schema parsed from the schema argument
    rendered,      \* schema.to_string(), once the CREATE statement is built
    i,             \* the counter of the header loop
    pos,           \* number of source lines read so far
    stream,        \* the reader: "open", "eof" (returned None), "failed"
    batch,         \* the batch being filled
    table_format,  \* the table reference of the INSERT statements
    sent,          \* the statements handed to execute_query_json, in order
    replies,       \* what execute_query_json returned for them, in order
    diags,         \* what was written with writer.write_err, in order
    log            \* history: the non-empty batches, each with the index in
                   \* sent of its INSERT (0 when it produced none)

vars == <<load, schema, skip, profile, source, pc, precheck, result, parsed,
          rendered, i, pos, stream, batch, table_format, sent, replies, diags,
          log>>

args == <<load, schema, skip, profile, source>>

NoSchema == [ok |-> FALSE, schema |-> <<>>]

\* The state local_exec_match starts in, for given arguments.
Start ==
    /\ pc = "precheck"
    /\ precheck = "pending"
    /\ result = "none"
    /\ parsed = NoSchema
    /\ rendered = <<>>
    /\ i = 0
    /\ pos = 0
    /\ stream = "open"
    /\ batch = <<>>
    /\ table_format = <<>>
    /\ sent = <<>>
    /\ replies = <<>>
    /\ diags = <<>>
    /\ log = <<>>

Init ==
    /\ load \in LoadArgs
    /\ schema \in SchemaArgs
    /\ skip \in 0..MaxSkip
    /\ profile \in BOOLEAN
    /\ source \in Sources
    /\ Start

(***************************************************************************)
(* local_exec_precheck, and the match on its result.                       *)
(***************************************************************************)
\* OnPrecheckErr with the load going on to its source after the diagnostic.
OnPrecheckErrGoesOn ==
    /\ precheck' = "Err"
    /\ diags' = Append(diags, [kind |-> "precheck", table |-> Table])
    /\ result' = result
    /\ pc' = "open"

\* Err(e) => { writer.write_err("Query command precheck failed, ..."); Ok(()) }
OnPrecheckErr ==
    /\ precheck' = "Err"
    /\ diags' = Append(diags, [kind |-> "precheck", table |-> Table])
    /\ result' = "Ok"
    /\ pc' = "done"

\* Ok(_) => match args.value_of("load") ...
OnPrecheckOk ==
    /\ precheck' = "Ok"
    /\ pc' = "open"
    /\ UNCHANGED <<diags, result>>

\* status.current_profile.is_none(): the precheck fails before any statement.
PrecheckNoProfile ==
    /\ pc = "precheck"
    /\ ~profile
    /\ OnPrecheckErr
    /\ UNCHANGED <<args, parsed, rendered, i, pos, stream, batch, table_format,
                   sent, replies, log>>

\* Status::read(self.conf.clone())? returns its error, before or after the
\* test of the profile: the precheck fails before any statement.
PrecheckStatusFails ==
    /\ pc = "precheck"
    /\ OnPrecheckErr
    /\ UNCHANGED <<args, parsed, rendered, i, pos, stream, batch, table_format,
                   sent, replies, log>>

\* args.value_of_t::<Schema>("schema") is Err: the precheck fails.
PrecheckInvalidSchema ==
    /\ pc = "precheck"
    /\ profile
    /\ schema.some
    /\ ~from_str(schema.val).ok
    /\ OnPrecheckErr
    /\ UNCHANGED <<args, parsed, rendered, i, pos, stream, batch, table_format,
                   sent, replies, log>>

\* The result of table_exists for a reply: Ok(()) or Err.
TableExistsOk(r) == ~r.err /\ ~(~r.col \/ r.data = "none" \/ r.data = "empty")

\* create_table_if_not_exists on Err(_) of table_exists, up to its await:
\* build_query_endpoint(status)? returns its error, or the CREATE TABLE is
\* sent, built from the schema parsed from the argument.
CreateSend ==
    \/ /\ OnPrecheckErr
       /\ UNCHANGED <<sent, rendered>>
    \/ /\ rendered' = to_string(from_str(schema.val).schema)
       /\ sent' = Append(sent, CreateTableQuery(Table, from_str(schema.val).schema))
       /\ pc' = "create_wait"
       /\ UNCHANGED <<precheck, result, diags>>

\* What create_table_if_not_exists does with the result of table_exists.
CreateIfNotExists(r) ==
    IF TableExistsOk(r)
    THEN OnPrecheckOk /\ UNCHANGED <<sent, rendered>>
    ELSE CreateSend

\* What the precheck without a schema does with the result of table_exists.
VerifyExisting(r) ==
    /\ IF TableExistsOk(r) THEN OnPrecheckOk ELSE OnPrecheckErr
    /\ UNCHANGED <<sent, rendered>>

\* table_exists returns Err from build_query_endpoint(status)? before any
\* statement: the Err of the precheck when no schema is given, the Err(_) arm
\* of create_table_if_not_exists when the schema parsed.
TableExistsEndpointErr ==
    IF schema.some
    THEN CreateSend
    ELSE OnPrecheckErr /\ UNCHANGED <<sent, rendered>>

\* table_exists, up to its await: directly when no schema is given, from
\* create_table_if_not_exists when the schema parsed.  The endpoint is built
\* (it may fail) and the SHOW TABLES is sent.
TableExistsSend ==
    /\ pc = "precheck"
    /\ profile
    /\ schema.some => from_str(schema.val).ok
    /\ parsed' = IF schema.some THEN from_str(schema.val) ELSE parsed
    /\ \/ TableExistsEndpointErr
       \/ /\ sent' = Append(sent, ShowTablesQuery(Table))
          /\ pc' = "exists_wait"
          /\ UNCHANGED <<precheck, result, rendered, diags>>
    /\ UNCHANGED <<args, i, pos, stream, batch, table_format, replies, log>>

\* The existence check returns.
TableExistsReply ==
    /\ pc = "exists_wait"
    /\ \E r \in Replies :
        /\ replies' = Append(replies, r)
        /\ IF schema.some THEN CreateIfNotExists(r) ELSE VerifyExisting(r)
    /\ UNCHANGED <<args, parsed, i, pos, stream, batch, table_format, log>>

\* The CREATE TABLE statement returns: execute_query_json(..).await?; Ok(())
CreateReply ==
    /\ pc = "create_wait"
    /\ \E r \in Acks :
        /\ replies' = Append(replies, r)
        /\ IF r.err THEN OnPrecheckErr ELSE OnPrecheckOk
    /\ UNCHANGED <<args, parsed, rendered, i, pos, stream, batch, table_format,
                   sent, log>>

(***************************************************************************)
(* The source.                                                             *)
(***************************************************************************)
\* Some(val), the path exists: std::fs::read(..).expect(..), the text built
\* from the buffer is dropped, and the match ends.
OpenFile ==
    /\ pc = "open"
    /\ load.some
    /\ PathExists(load.val)
    /\ \/ /\ pos' = Len(source)
          /\ stream' = "eof"
          /\ result' = "Ok"
       \/ /\ stream' = "failed"
          /\ result' = "panic"
          /\ pos' = pos
    /\ pc' = "done"
    /\ UNCHANGED <<args, precheck, parsed, rendered, i, batch, table_format,
                   sent, replies, diags, log>>

\* Some(val), the path does not exist: nothing is done.
OpenMissing ==
    /\ pc = "open"
    /\ load.some
    /\ ~PathExists(load.val)
    /\ result' = "Ok"
    /\ pc' = "done"
    /\ UNCHANGED <<args, precheck, parsed, rendered, i, pos, stream, batch,
                   table_format, sent, replies, diags, log>>

\* None: BufReader::new(stdin()).lines(), and the header loop starts.
OpenStdin ==
    /\ pc = "open"
    /\ ~load.some
    /\ i' = 0
    /\ pc' = "skip"
    /\ UNCHANGED <<args, precheck, result, parsed, rendered, pos, stream, batch,
                   table_format, sent, replies, diags, log>>

\* ReadFails with the error taken for the end of the stream (while let
\* Ok(Some(line))): the lines read so far go on to the dispatch.
ReadFailsEndsStream ==
    /\ stream' = "failed"
    /\ pc' = "full"
    /\ UNCHANGED <<pos, i, batch, result>>

\* reader.next_line().await fails: the ? returns the error.
ReadFails ==
    /\ stream' = "failed"
    /\ result' = "Err"
    /\ pc' = "done"
    /\ UNCHANGED <<pos, i, batch>>

(***************************************************************************)
(* The header loop: for i in 0..skip { next_line } .                       *)
(***************************************************************************)
\* InHeader with an inclusive range, 0..=skip.
InHeaderInclusive == i <= skip

\* The range of the header loop is not exhausted.
InHeader == i < skip

\* HeaderEof with the end of the stream reported as an error.
HeaderEofIsErr ==
    /\ stream' = "eof"
    /\ result' = "Err"
    /\ pc' = "done"
    /\ UNCHANGED <<pos, i, batch>>

\* if let None = reader.next_line().await? { return Ok(()) }
HeaderEof ==
    /\ stream' = "eof"
    /\ result' = "Ok"
    /\ pc' = "done"
    /\ UNCHANGED <<pos, i, batch>>

SkipLine ==
    /\ pc = "skip"
    /\ InHeader
    /\ \/ ReadFails
       \/ /\ pos = Len(source)
          /\ HeaderEof
       \/ /\ pos < Len(source)
          /\ pos' = pos + 1
          /\ i' = i + 1
          /\ UNCHANGED <<stream, result, pc, batch>>
    /\ UNCHANGED <<args, precheck, parsed, rendered, table_format, sent,
                   replies, diags, log>>

\* Status::read(..)? or build_query_endpoint(..)? returns its error: the load
\* is over before the batch loop.
EndpointFails ==
    /\ result' = "Err"
    /\ pc' = "done"
    /\ UNCHANGED <<batch>>

\* The header loop is over: table_format is built, then the status is read
\* and the endpoint resolved again (each may fail), and the batch loop
\* starts.
EnterLoop ==
    /\ pc = "skip"
    /\ ~InHeader
    /\ table_format' = TableFormat(Table, schema)
    /\ \/ EndpointFails
       \/ /\ batch' = <<>>
          /\ pc' = "fill"
          /\ UNCHANGED <<result>>
    /\ UNCHANGED <<args, precheck, parsed, rendered, i, pos, stream,
                   sent, replies, diags, log>>

(***************************************************************************)
(* The batch loop.                                                         *)
(***************************************************************************)
\* Push with an inclusive range, 0..=BatchSize.
PushInclusive(line) ==
    /\ batch' = Append(batch, line)
    /\ pos' = pos + 1
    /\ pc' = IF Len(batch) + 1 <= BatchSize THEN "fill" ELSE "full"
    /\ UNCHANGED <<stream, result, i>>

\* batch.push(line), and the for loop goes on unless its range is exhausted.
Push(line) ==
    /\ batch' = Append(batch, line)
    /\ pos' = pos + 1
    /\ pc' = IF Len(batch) + 1 < BatchSize THEN "fill" ELSE "full"
    /\ UNCHANGED <<stream, result, i>>

\* One turn of for _ in 0..100_000 { next_line }.
FillBatch ==
    /\ pc = "fill"
    /\ \/ ReadFails
       \/ /\ pos = Len(source)
          /\ stream' = "eof"
          /\ pc' = "full"
          /\ UNCHANGED <<pos, result, i, batch>>
       \/ /\ pos < Len(source)
          /\ Push(source[pos + 1])
    /\ UNCHANGED <<args, precheck, parsed, rendered, table_format, sent,
                   replies, diags, log>>

\* EndOfLoad with the outer loop going on (continue) on an empty batch.
EndOfLoadContinues ==
    /\ pc = "full"
    /\ batch = <<>>
    /\ pc' = "fill"
    /\ UNCHANGED <<args, precheck, result, parsed, rendered, i, pos, stream,
                   batch, table_format, sent, replies, diags, log>>

\* if batch.is_empty() { break }, then Ok(()).
EndOfLoad ==
    /\ pc = "full"
    /\ batch = <<>>
    /\ result' = "Ok"
    /\ pc' = "done"
    /\ UNCHANGED <<args, precheck, parsed, rendered, i, pos, stream, batch,
                   table_format, sent, replies, diags, log>>

\* The next turn of the outer loop: let mut batch = vec![].
NextBatch ==
    /\ batch' = <<>>
    /\ pc' = "fill"

\* The batch is transformed; if let Some(values) the INSERT is sent.
Dispatch ==
    /\ pc = "full"
    /\ batch # <<>>
    /\ \E values \in Values(batch) :
        IF values.some
        THEN /\ sent' = Append(sent, InsertQuery(table_format, values.val))
             /\ log' = Append(log, [lines |-> batch, stmt |-> Len(sent) + 1])
             /\ pc' = "insert_wait"
             /\ batch' = batch
        ELSE /\ log' = Append(log, [lines |-> batch, stmt |-> 0])
             /\ NextBatch
             /\ sent' = sent
    /\ UNCHANGED <<args, precheck, result, parsed, rendered, i, pos, stream,
                   table_format, replies, diags>>

\* OnInsertErr with the error returned from the load (a ? on the call).
OnInsertErrAborts ==
    /\ diags' = Append(diags, [kind |-> "insert", table |-> Table])
    /\ result' = "Err"
    /\ pc' = "done"
    /\ batch' = batch

\* OnInsertErr with the batch kept and dispatched again after the diagnostic.
OnInsertErrRetries ==
    /\ diags' = Append(diags, [kind |-> "insert", table |-> Table])
    /\ pc' = "full"
    /\ batch' = batch
    /\ UNCHANGED <<result>>

\* if let Err(e) = execute_query_json(..) { writer.write_err(..) }
OnInsertErr ==
    /\ diags' = Append(diags, [kind |-> "insert", table |-> Table])
    /\ NextBatch
    /\ UNCHANGED <<result>>

\* The INSERT returns.
InsertReply ==
    /\ pc = "insert_wait"
    /\ \E r \in Acks :
        /\ replies' = Append(replies, r)
        /\ IF r.err THEN OnInsertErr
           ELSE NextBatch /\ UNCHANGED <<diags, result>>
    /\ UNCHANGED <<args, precheck, parsed, rendered, i, pos, stream,
                   table_format, sent, log>>

Next ==
    \/ PrecheckNoProfile
    \/ PrecheckStatusFails
    \/ PrecheckInvalidSchema
    \/ TableExistsSend
    \/ TableExistsReply
    \/ CreateReply
    \/ OpenFile
    \/ OpenMissing
    \/ OpenStdin
    \/ SkipLine
    \/ EnterLoop
    \/ FillBatch
    \/ EndOfLoad
    \/ Dispatch
    \/ InsertReply

Spec == Init /\ [][Next]_vars

(***************************************************************************)
(* The load as one run from its invocation, with the scheduling the code   *)
(* has inside the batch loop: a read of the reader returns, a batch that   *)
(* is complete is handled, and the awaited INSERT returns.                 *)
(***************************************************************************)
\* Before exec_matches is entered: no argument is bound yet.
FairInit ==
    /\ load = None
    /\ schema = None
    /\ skip = 0
    /\ profile = FALSE
    /\ source = <<>>
    /\ pc = "args"
    /\ precheck = "pending"
    /\ result = "none"
    /\ parsed = NoSchema
    /\ rendered = <<>>
    /\ i = 0
    /\ pos = 0
    /\ stream = "open"
    /\ batch = <<>>
    /\ table_format = <<>>
    /\ sent = <<>>
    /\ replies = <<>>
    /\ diags = <<>>
    /\ log = <<>>

\* The command is invoked with its arguments, profile and source.
Invoke ==
    /\ pc = "args"
    /\ load' \in LoadArgs
    /\ schema' \in SchemaArgs
    /\ skip' \in 0..MaxSkip
    /\ profile' \in BOOLEAN
    /\ source' \in Sources
    /\ pc' = "precheck"
    /\ UNCHANGED <<precheck, result, parsed, rendered, i, pos, stream, batch,
                   table_format, sent, replies, diags, log>>

FairNext == Invoke \/ Next

\* A turn of the batch loop.
LoopStep == FillBatch \/ EndOfLoad \/ Dispatch \/ InsertReply

FairSpec == FairInit /\ [][FairNext]_vars /\ WF_vars(LoopStep)

(***************************************************************************)
(* Schema check: from_str and to_string applied to schema arguments.       *)
(***************************************************************************)
ColumnNames == { <<"a">>, <<"b">>, <<"a", "b">> }
ColumnTypes == { <<"u">>, <<"v">> }

\* Fields of a schema argument: name:type, and fields that are not.
SchemaFields ==
    { n \o <<":">> \o t : n \in ColumnNames, t \in ColumnTypes }
    \cup { <<"a">>, <<>>, <<"a", ":", ":", "u">>, <<"b", ":", "u", ":", "v">>,
           <<" ", "c", " ", ":", " ", "u">> }

SchemaStrings ==
    { Join(fs, ",") : fs \in SeqsUpTo(SchemaFields, MaxFields) \ { <<>> } }

SchemaInit ==
    /\ load = None
    /\ schema \in { Some(s) : s \in SchemaStrings }
    /\ skip = 0
    /\ profile = TRUE
    /\ source = <<>>
    /\ Start

\* args.value_of_t::<Schema>("schema")
ParseSchema ==
    /\ pc = "precheck"
    /\ parsed' = from_str(schema.val)
    /\ pc' = IF from_str(schema.val).ok THEN "parsed" ELSE "invalid"
    /\ UNCHANGED <<args, precheck, result, rendered, i, pos, stream, batch,
                   table_format, sent, replies, diags, log>>

\* schema.to_string()
RenderSchema ==
    /\ pc = "parsed"
    /\ rendered' = to_string(parsed.schema)
    /\ pc' = "rendered"
    /\ UNCHANGED <<args, precheck, result, parsed, i, pos, stream, batch,
                   table_format, sent, replies, diags, log>>

SchemaNext == ParseSchema \/ RenderSchema

SchemaSpec == SchemaInit /\ [][SchemaNext]_vars

(***************************************************************************)
(* Vocabulary of the properties.                                           *)
(***************************************************************************)
IsShow(q) == q # <<>> /\ q[1] = "SHOW TABLES LIKE '"
IsCreate(q) == q # <<>> /\ q[1] = "CREATE TABLE "
IsInsert(q) == q # <<>> /\ q[1] = "INSERT INTO "

Shows == { k \in 1..Len(sent) : IsShow(sent[k]) }
Creates == { k \in 1..Len(sent) : IsCreate(sent[k]) }
Inserts == { k \in 1..Len(sent) : IsInsert(sent[k]) }

\* The first place of the token tok in q (Len(q) + 1 when it has none).
IndexOf(q, tok) ==
    IF \E j \in 1..Len(q) : q[j] = tok
    THEN CHOOSE j \in 1..Len(q) : q[j] = tok /\ \A m \in 1..(j - 1) : q[m] # tok
    ELSE Len(q) + 1

\* The table reference and the value list of an INSERT statement.
TableRefOf(q) == SubSeq(q, 2, IndexOf(q, " VALUES ") - 1)
ValueListOf(q) == SubSeq(q, IndexOf(q, " VALUES ") + 1, Len(q))

\* The fragments of an INSERT statement, in the statement's order.
FragmentsOf(q) == Split(ValueListOf(q), ", ")

Count(seq, x) == Cardinality({ j \in 1..Len(seq) : seq[j] = x })

Min(a, b) == IF a <= b THEN a ELSE b

\* A line that is empty or whitespace-only.
Blank(line) == \A j \in 1..Len(line) : line[j] = " "

\* The content of a line without its leading and trailing blanks.
Content(line) ==
    LET inner == { j \in 1..Len(line) : line[j] # " " } IN
    IF inner = {} THEN <<>>
    ELSE SubSeq(line, CHOOSE j \in inner : \A m \in inner : j <= m,
                      CHOOSE j \in inner : \A m \in inner : m <= j)

\* The fragment of a line: its content in parentheses.
FragmentFor(line) == <<"(">> \o Content(line) \o <<")">>

\* The batches of a source: the lines after the header, BatchSize at a time.
NumBatches ==
    IF Len(source) <= skip THEN 0
    ELSE (Len(source) - skip + BatchSize - 1) \div BatchSize

BatchLines(k) ==
    SubSeq(source, skip + (k - 1) * BatchSize + 1,
           Min(skip + k * BatchSize, Len(source)))

AllBlank(k) == \A j \in 1..Len(BatchLines(k)) : Blank(BatchLines(k)[j])

\* The load read standard input to its end after a successful precheck: no
\* read failed, and the load did not end on an error of the status or the
\* endpoint before the batch loop.
ReadToEnd ==
    /\ pc = "done"
    /\ ~load.some
    /\ precheck = "Ok"
    /\ stream = "eof"

FailedInserts == { k \in Inserts : k <= Len(replies) /\ replies[k].err }

InsertDiags == { j \in 1..Len(diags) : diags[j].kind = "insert" }

C2_ResolveOnceBeforeData ==
    /\ precheck \in {"pending", "Err"} =>
         /\ pos = 0
         /\ stream = "open"
         /\ Inserts = {}
    /\ precheck = "pending" <=> pc \in {"precheck", "exists_wait", "create_wait"}
    /\ Cardinality(Shows) <= 1
    /\ Cardinality(Creates) <= 1
    /\ precheck = "Ok" =>
         \E k \in Shows \cup Creates : k <= Len(replies) /\ ~replies[k].err
    /\ \A k \in Inserts : \A j \in Shows \cup Creates : j < k
    /\ (pos > 0 \/ stream # "open") => precheck = "Ok"

\* The table was created, lines were read and an INSERT was sent.
C2_Witness ==
    /\ precheck = "Ok"
    /\ Creates # {}
    /\ pos > 0
    /\ Inserts # {}

RECURSIVE Flatten(_)
Flatten(ss) == IF ss = <<>> THEN <<>> ELSE Head(ss) \o Flatten(Tail(ss))

\* All lines put in a batch so far, in order: the batches handled, and the
\* batch being filled (while its INSERT is awaited it is the last one handled).
Batched ==
    Flatten([k \in 1..Len(log) |-> log[k].lines])
      \o (IF pc = "insert_wait" THEN <<>> ELSE batch)

C4_HeaderLinesNeverBatched ==
    ~load.some =>
      /\ i = Min(pos, skip)
      /\ pc \in {"fill", "full", "insert_wait"} => i = skip
      /\ Batched = IF pos > skip THEN SubSeq(source, skip + 1, pos) ELSE <<>>
      /\ \A k \in 1..Len(log) :
           log[k].stmt # 0 =>
             LET frags == FragmentsOf(sent[log[k].stmt]) IN
             \A f \in 1..Len(frags) :
               \E j \in 1..Len(log[k].lines) :
                 frags[f] = FragmentFor(log[k].lines[j])

\* Two header lines were skipped, the second of them non-blank and unlike
\* the line that follows, which was dispatched.
C4_Witness ==
    /\ ~load.some
    /\ skip = 2
    /\ Len(source) > 2
    /\ ~Blank(source[2])
    /\ Content(source[2]) # Content(source[3])
    /\ Len(log) > 0
    /\ log[1].stmt \in Inserts

(***************************************************************************)
(* C5.  When the precheck succeeded, no read failed and the header count   *)
(* is at least the number of source lines, the load sends no INSERT and    *)
(* writes no diagnostic; it ends Ok, by the return of the header loop when *)
(* the count is greater, by the break on the empty first batch when it is  *)
(* equal.  The one other end is not a header error: when the count equals  *)
(* the number of lines the code reads the status and resolves the endpoint *)
(* (lines 187-188) before the batch loop, and an error there is returned,  *)
(* before the end of the input is seen.                                    *)
(***************************************************************************)
\* On standard input the load ended after the header loop and before the
\* batch loop, on the error of Status::read or build_query_endpoint.
EndedOnEndpoint ==
    /\ pc = "done"
    /\ ~load.some
    /\ precheck = "Ok"
    /\ stream = "open"

C6_BatchCountLessBlankBatches ==
    ReadToEnd =>
      Cardinality(Inserts)
        = NumBatches - Cardinality({ k \in 1..NumBatches : AllBlank(k) })

(***************************************************************************)
(* C7.  The claim as stated: a blank line contributes no fragment (the     *)
(* statement of a batch has as many fragments as the batch has non-blank   *)
(* lines), and a batch of blank lines produces no dispatch.                *)
(***************************************************************************)
C7_BlankLinesContributeNothing ==
    \A k \in 1..Len(log) :
      LET nonblank == { j \in 1..Len(log[k].lines) : ~Blank(log[k].lines[j]) } IN
      IF nonblank = {} THEN log[k].stmt = 0
      ELSE /\ log[k].stmt \in Inserts
           /\ Len(FragmentsOf(sent[log[k].stmt])) = Cardinality(nonblank)

(***************************************************************************)
(* C8.  The claim as stated: for a schema string of name:type fields with  *)
(* distinct names, the rendering of the parsed schema holds the declared   *)
(* name/type pairs in the order of declaration.                            *)
(***************************************************************************)
\* The fields of a schema string, blanks removed, each split on ':'.
Declared(s) ==
    LET fields == Split(SelectSeq(s, LAMBDA c : c # " "), ",") IN
    [j \in 1..Len(fields) |-> Split(fields[j], ":")]

\* Every field is a name and a type, both non-empty.
WellFormed(s) ==
    LET d == Declared(s) IN
    \A j \in 1..Len(d) : Len(d[j]) = 2 /\ d[j][1] # <<>> /\ d[j][2] # <<>>

DistinctNames(s) ==
    LET d == Declared(s) IN
    \A j, k \in 1..Len(d) : j # k => d[j][1] # d[k][1]

\* The `name type` pairs of a rendered column list.
PairsOf(text) ==
    LET items == Split(text, ",") IN
    [j \in 1..Len(items) |-> Split(items[j], " ")]

C8_RenderKeepsDeclarationOrder ==
    (/\ pc = "rendered"
     /\ WellFormed(schema.val)
     /\ DistinctNames(schema.val)) =>
        PairsOf(rendered) = Declared(schema.val)

(***************************************************************************)
(* C9.  The claim as stated: with a schema and an existence check that     *)
(* reports the table absent, the statements are the existence check, then  *)
(* one CREATE TABLE whose columns are the declared `name type` pairs       *)
(* joined by ", " in declared order, then only INSERTs into                *)
(* `table (names)` with the names in declared order.  Stated for schemas   *)
(* whose names are distinct, once a statement has followed the existence   *)
(* check (the endpoint was resolved for the CREATE TABLE).                 *)
(***************************************************************************)
\* The reply says the table is there / is not there.
ReportsPresent(r) == ~r.err /\ r.col /\ r.data = "rows"
ReportsAbsent(r) == ~r.err /\ ~ReportsPresent(r)

DeclaredNames(s) == LET d == Declared(s) IN [j \in 1..Len(d) |-> d[j][1]]

DeclaredColumns(s) ==
    LET d == Declared(s) IN [j \in 1..Len(d) |-> d[j][1] \o <<" ">> \o d[j][2]]

C9_CreateThenInsertsInDeclaredOrder ==
    (/\ schema.some
     /\ Len(replies) >= 1
     /\ IsShow(sent[1])
     /\ ReportsAbsent(replies[1])
     /\ WellFormed(schema.val)
     /\ DistinctNames(schema.val)
     /\ Len(sent) >= 2) =>
        /\ sent[2] = <<"CREATE TABLE ">> \o Table \o <<"(">>
                       \o Join(DeclaredColumns(schema.val), ", ")
                       \o <<") Engine = Fuse;">>
        /\ \A k \in 3..Len(sent) :
             /\ IsInsert(sent[k])
             /\ TableRefOf(sent[k])
                  = Table \o <<" (">> \o Join(DeclaredNames(schema.val), ", ") \o <<")">>

(***************************************************************************)
(* C10.  The claim as stated: with a valid schema and an existence check   *)
(* that reports the table present, no CREATE TABLE is sent and every       *)
(* INSERT names the bare table.                                            *)
(***************************************************************************)
SchemaGivenTablePresent ==
    /\ schema.some
    /\ Len(replies) >= 1
    /\ IsShow(sent[1])
    /\ ReportsPresent(replies[1])
    /\ WellFormed(schema.val)

C10_ExistingTableBareName ==
    SchemaGivenTablePresent =>
      /\ Creates = {}
      /\ \A k \in Inserts : TableRefOf(sent[k]) = Table

(***************************************************************************)
(* C10, amended.  With a valid schema and an existence check that reports  *)
(* the table present, no CREATE TABLE is sent, and every INSERT names the  *)
(* table followed by a parenthesised list, joined by ", ", that holds each *)
(* distinct declared column name exactly once: the schema still shapes the *)
(* INSERTs.                                                                *)
(***************************************************************************)
C10_ExistingTableColumnList ==
    SchemaGivenTablePresent =>
      /\ Creates = {}
      /\ LET names == DeclaredNames(schema.val)
             nameSet == { names[j] : j \in 1..Len(names) }
             n == Len(Table)
         IN \A k \in Inserts :
              LET ref == TableRefOf(sent[k])
                  cols == Split(SubSeq(ref, n + 2, Len(ref) - 1), ", ")
              IN /\ Len(ref) >= n + 2
                 /\ SubSeq(ref, 1, n) = Table
                 /\ ref[n + 1] = " ("
                 /\ ref[Len(ref)] = ")"
                 /\ Len(cols) = Cardinality(nameSet)
                 /\ \A name \in nameSet : Count(cols, name) = 1

\* Two INSERTs were sent for a load with a schema of two columns whose
\* table was present.
C10_Witness ==
    /\ SchemaGivenTablePresent
    /\ DistinctNames(schema.val)
    /\ Cardinality(Inserts) = 2

(***************************************************************************)
(* C11.  With no schema, one existence check is sent and never a CREATE    *)
(* TABLE, and a load whose existence check did not report the table        *)
(* present (no column list, no row list, or no row) has sent nothing else  *)
(* and ends with a failure as the result of the load.                      *)
(***************************************************************************)
C11_AbsentTableIsTheResult ==
    (/\ pc = "done"
     /\ ~schema.some
     /\ Len(replies) >= 1
     /\ ReportsAbsent(replies[1])) =>
        /\ Creates = {}
        /\ Shows = {1}
        /\ Len(sent) = 1
        /\ result = "Err"

(***************************************************************************)
(* C12.  A schema string with a comma-delimited field whose non-empty      *)
(* tokens between ':' are not exactly two is rejected as a whole: the      *)
(* precheck fails on it, and no statement of any kind is ever sent, nor    *)
(* any line read.                                                          *)
(***************************************************************************)
\* The number of non-empty tokens of a field: the runs of characters other
\* than ':'.
NumTokens(field) ==
    Cardinality({ j \in 1..Len(field) :
                    field[j] # ":" /\ (j = 1 \/ field[j - 1] = ":") })

\* Some comma-delimited field of the string, blanks removed, has not exactly
\* two non-empty tokens.
Malformed(s) ==
    LET fields == Split(SelectSeq(s, LAMBDA c : c # " "), ",") IN
    \E j \in 1..Len(fields) : NumTokens(fields[j]) # 2

C12_MalformedSchemaSendsNothing ==
    (schema.some /\ Malformed(schema.val)) =>
      /\ sent = <<>>
      /\ replies = <<>>
      /\ pos = 0
      /\ pc \in {"precheck", "done"}
      /\ pc = "done" =>
           /\ precheck = "Err"
           /\ diags = <<[kind |-> "precheck", table |-> Table]>>

\* With a profile, the load ended on a schema with a well-formed field
\* followed by a malformed one.
C12_Witness ==
    /\ pc = "done"
    /\ profile
    /\ schema.some
    /\ Malformed(schema.val)
    /\ NumTokens(Head(Split(schema.val, ","))) = 2
    /\ precheck = "Err"

(***************************************************************************)
(* C13.  Every INSERT has the shape                                        *)
(* `INSERT INTO <table_ref> VALUES <value_list>;`: the table reference of  *)
(* the load, then the fragments `(<trimmed line>)` of the batch joined by  *)
(* ", ", then a semicolon that ends the statement.  Stated for batches     *)
(* without blank lines (C7 is about those).                                *)
(***************************************************************************)
C13_InsertEndsWithSemicolon ==
    \A k \in 1..Len(log) :
      (log[k].stmt # 0 /\ \A j \in 1..Len(log[k].lines) : ~Blank(log[k].lines[j])) =>
        LET q == sent[log[k].stmt]
            lines == log[k].lines
        IN \E o \in Permutations(1..Len(lines)) :
             q = <<"INSERT INTO ">> \o table_format \o <<" VALUES ">>
                   \o Join([j \in 1..Len(lines) |-> FragmentFor(lines[o[j]])], ", ")
                   \o <<";">>

(***************************************************************************)
(* C14.  INSERTs are dispatched one at a time and each batch is attempted  *)
(* once: at most one statement is without its answer in any state, and it  *)
(* is the last one sent, while the load awaits it; when the INSERT of a    *)
(* batch is sent the INSERT of every earlier batch has been answered; and  *)
(* no batch, failed or not, is handled twice: there are never more batches *)
(* handled than the source holds, nor more INSERTs than batches handled.   *)
(***************************************************************************)
InFlight == Len(sent) - Len(replies)

C14_OneInsertAtATime ==
    /\ InFlight \in {0, 1}
    /\ InFlight = 1 <=> pc \in {"exists_wait", "create_wait", "insert_wait"}
    /\ pc = "insert_wait" =>
         /\ IsInsert(sent[Len(sent)])
         /\ log # <<>>
         /\ log[Len(log)].stmt = Len(sent)
    /\ \A j, k \in 1..Len(log) :
         (j < k /\ log[j].stmt # 0 /\ log[k].stmt # 0) =>
            log[j].stmt <= Len(replies)
    /\ Len(log) <= NumBatches
    /\ Cardinality(Inserts) <= Len(log)
    /\ \A j, k \in Inserts : j < k => j <= Len(replies)

\* The INSERT of the second batch is awaited after the INSERT of the first
\* batch failed.
C14_Witness ==
    /\ pc = "insert_wait"
    /\ Len(log) = 2
    /\ log[1].stmt # 0
    /\ replies[log[1].stmt].err
    /\ InFlight = 1
    /\ Cardinality(Inserts) = 2

(***************************************************************************)
(* C15.  The load is source-agnostic: a load of an existing local file     *)
(* handles the batches that a load of the same lines from standard input   *)
(* handles (C1, C3): every batch of the lines after the header, with an    *)
(* INSERT for each batch that holds a non-blank line; so a file with a     *)
(* non-blank line after the header gives at least one INSERT.              *)
(***************************************************************************)
C15_FileLoadDispatchesItsLines ==
    (/\ pc = "done"
     /\ load.some
     /\ PathExists(load.val)
     /\ precheck = "Ok"
     /\ result = "Ok") =>
        /\ Len(log) = NumBatches
        /\ \A k \in 1..NumBatches :
             ~AllBlank(k) => (k <= Len(log) /\ log[k].stmt \in Inserts)
        /\ (\E j \in (skip + 1)..Len(source) : ~Blank(source[j])) => Inserts # {}

(***************************************************************************)
(* C16.  A load from a local path that does not exist fails: once the      *)
(* precheck has passed and the path has been looked at, the load is over   *)
(* with an error as its result and no INSERT sent; it does not end as a    *)
(* successful load.                                                        *)
(***************************************************************************)
C16_MissingPathFailsTheLoad ==
    (/\ pc = "done"
     /\ load.some
     /\ ~PathExists(load.val)
     /\ precheck = "Ok") =>
        /\ Inserts = {}
        /\ result = "Err"

(***************************************************************************)
(* C17.  A failure of the read of the next line of standard input, in the  *)
(* header loop or while a batch is filled, is fatal: the load is over with *)
(* an error as its result; the lines of the batch being filled are in no   *)
(* statement, nothing is sent after the failure, and what was sent before  *)
(* stays as it is: the precheck statements and the INSERTs of the batches  *)
(* handled before the failure, each with its answer.                       *)
(***************************************************************************)
\* The lines of the batches handled so far.
Handled == Flatten([k \in 1..Len(log) |-> log[k].lines])

C17_ReadFailureIsFatal ==
    (stream = "failed" /\ ~load.some) =>
      /\ pc = "done"
      /\ result = "Err"
      /\ InFlight = 0
      /\ Len(batch) < BatchSize
      /\ Handled \o batch =
            IF pos > skip THEN SubSeq(source, skip + 1, pos) ELSE <<>>
      /\ \A k \in 1..Len(sent) :
           \/ k \in Shows \cup Creates
           \/ k \in Inserts /\ \E j \in 1..Len(log) : log[j].stmt = k
      /\ \A k \in Inserts : \E j \in 1..Len(log) :
           /\ log[j].stmt = k
           /\ log[j].lines = BatchLines(j)
           /\ Len(FragmentsOf(sent[k])) <= BatchSize
      /\ Len(diags) = Cardinality(FailedInserts)

\* The read failed while the second batch was being filled, after the INSERT
\* of the first batch.
C17_Witness ==
    /\ stream = "failed"
    /\ ~load.some
    /\ batch # <<>>
    /\ Len(log) = 1
    /\ Inserts # {}
    /\ result = "Err"

(***************************************************************************)
(* C18.  The load terminates for every source and every pattern of         *)
(* dispatch outcomes.  Once the batch loop is entered the load comes to    *)
(* its end; every step of a load strictly decreases a measure made of the  *)
(* lines left to read and of the position in the code, so no run goes on   *)
(* for ever; and every turn of the batch loop either has consumed a line   *)
(* or ends the loop: an empty batch is followed by the end of the load     *)
(* only, and the loop goes to its next turn only after a non-empty batch.  *)
(***************************************************************************)
\* The position in the code, later positions lower.
Rank ==
    CASE pc = "args" -> 12
      [] pc = "precheck" -> 11
      [] pc = "exists_wait" -> 10
      [] pc = "create_wait" -> 9
      [] pc = "open" -> 8
      [] pc = "skip" -> 7
      [] pc = "fill" /\ batch # <<>> -> 5
      [] pc = "full" /\ batch # <<>> -> 4
      [] pc = "insert_wait" -> 3
      [] pc = "fill" /\ batch = <<>> -> 2
      [] pc = "full" /\ batch = <<>> -> 1
      [] OTHER -> 0

Measure == 13 * (Len(source) - pos) + Rank

LoadStepDecreases ==
    /\ pc # "args" => Measure' < Measure
    /\ (pc = "full" /\ batch = <<>>) => pc' = "done"
    /\ (pc \in {"full", "insert_wait"} /\ pc' = "fill") => (batch # <<>> /\ batch' = <<>>)

C18_LoadTerminates ==
    /\ (pc = "fill") ~> (pc = "done")
    /\ [][LoadStepDecreases]_vars

\* The load ended after two turns of the batch loop, the INSERT of the first
\* having failed, with the source read to its end.
C18_Witness ==
    /\ pc = "done"
    /\ stream = "eof"
    /\ Len(log) = 2
    /\ FailedInserts # {}
    /\ pos = Len(source)
    /\ result = "Ok"

(***************************************************************************)
(* C19.  With a schema, a CREATE TABLE is sent only after an existence     *)
(* check that returned without error and reported the table absent; an     *)
(* existence check that returned an error is followed by no CREATE TABLE.  *)
(***************************************************************************)
C19_CreateOnlyWhenReportedAbsent ==
    schema.some =>
      \A c \in Creates :
        /\ c = 2
        /\ IsShow(sent[1])
        /\ ~replies[1].err
        /\ ReportsAbsent(replies[1])

(***************************************************************************)
(* C20.  Within a load with a schema, the column names in the table        *)
(* reference of every INSERT are, in the same order, the column names of   *)
(* the CREATE TABLE statement built from the same schema string (the one   *)
(* sent, when one is sent), and every INSERT of the load has the same      *)
(* table reference.                                                        *)
(***************************************************************************)
\* The column names of a table reference `t (n1, n2, ..)`.
RefNames(ref) == Split(SubSeq(ref, Len(Table) + 2, Len(ref) - 1), ", ")

\* The column names of `CREATE TABLE t(n1 t1,n2 t2,..) Engine = Fuse;`.
CreateNames(q) ==
    LET pairs == PairsOf(SubSeq(q, Len(Table) + 3, Len(q) - 1)) IN
    [j \in 1..Len(pairs) |-> pairs[j][1]]

C20_InsertColumnsMatchCreate ==
    (schema.some /\ Inserts # {}) =>
      LET create == CreateTableQuery(Table, from_str(schema.val).schema)
          names == CreateNames(create)
          first == sent[CHOOSE k \in Inserts : \A j \in Inserts : k <= j]
      IN /\ names # <<>>
         /\ \A c \in Creates : sent[c] = create
         /\ \A k \in Inserts :
              /\ RefNames(TableRefOf(sent[k])) = names
              /\ TableRefOf(sent[k]) = TableRefOf(first)
              /\ TableRefOf(sent[k]) = table_format

\* The table was created from a schema of two columns and two INSERTs were
\* sent.
C20_Witness ==
    /\ schema.some
    /\ DistinctNames(schema.val)
    /\ Creates # {}
    /\ Cardinality(Inserts) = 2
    /\ Len(RefNames(table_format)) = 2

====
